---- MODULE Spec2Model ----
(***************************************************************************)
(* Model of the recursive decomposition and reconciliation engine of       *)
(* extract_text (src/src/lib.rs): extract_archive builds the flat leaf     *)
(* list, extract_text_from_file reconciles it against pre_scanned_items.   *)
(*                                                                         *)
(* A file name is a sequence of tokens (<<"a", ".", "txt">>), a path is a  *)
(* sequence of names, a file's content is a record holding its bytes and   *)
(* what the format libraries find when they parse those bytes.             *)
(***************************************************************************)
EXTENDS Integers, Sequences, FiniteSets, TLC

\* ------------------------------------------------------------------ names
RootDir == <<"/">>
DotDot == <<"..">>
Nm(s) == <<s>>
NmExt(s, e) == <<s, ".", e>>

RECURSIVE LastDot(_, _)
LastDot(name, i) ==
  IF i = 0 THEN 0
  ELSE IF name[i] = "." THEN i ELSE LastDot(name, i - 1)

\* Path::extension of a file name: the part after the last '.', none when
\* the only '.' is the first character.
extension(name) ==
  LET i == LastDot(name, Len(name))
  IN IF i <= 1 \/ name = DotDot \/ name = RootDir THEN <<>>
     ELSE SubSeq(name, i + 1, Len(name))

LowerTok(t) ==
  CASE t = "TXT" -> "txt"
    [] t = "ZIP" -> "zip"
    [] t = "PNG" -> "png"
    [] t = "MSG" -> "msg"
    [] OTHER -> t

to_lowercase(s) == [i \in 1..Len(s) |-> LowerTok(s[i])]

\* ------------------------------------------------------------------ paths
Parent(p) == IF Len(p) <= 1 THEN p ELSE SubSeq(p, 1, Len(p) - 1)

\* Path::file_name().unwrap_or_default(): the last component, empty when the
\* path ends in "..".
file_name(p) ==
  IF p = <<>> \/ p[Len(p)] = DotDot \/ p[Len(p)] = RootDir THEN <<>>
  ELSE p[Len(p)]

\* PathBuf::join: an absolute argument replaces the base.
Join(base, rel) ==
  IF rel # <<>> /\ rel[1] = RootDir THEN rel ELSE base \o rel

RECURSIVE Resolve(_, _)
Resolve(p, acc) ==
  IF p = <<>> THEN acc
  ELSE LET c == Head(p)
       IN Resolve(Tail(p),
            IF c = DotDot
              THEN (IF Len(acc) > 1 THEN SubSeq(acc, 1, Len(acc) - 1) ELSE acc)
              ELSE Append(acc, c))

\* The file the operating system reaches for a path: ".." steps resolved.
Norm(p) == Resolve(p, <<>>)

IsPrefix(a, b) == Len(a) <= Len(b) /\ SubSeq(b, 1, Len(a)) = a

tempfiles_location == <<RootDir, Nm("tmp"), Nm("extract_text_from_file")>>

DigitTok == <<"0", "1", "2", "3", "4", "5", "6", "7", "8", "9">>

RECURSIVE Digits(_)
Digits(i) ==
  IF i < 10 THEN <<DigitTok[i + 1]>>
  ELSE Append(Digits(i \div 10), DigitTok[(i % 10) + 1])

\* Uuid::new_v4().simple().to_string(): the i-th id drawn, all distinct.
UuidName(i) == <<"uuid">> \o Digits(i)

\* ------------------------------------------------------------- fingerprint
CrcModulus == 256

RECURSIVE CrcFold(_, _)
CrcFold(bytes, c) ==
  IF bytes = <<>> THEN c
  ELSE CrcFold(Tail(bytes), (c * 33 + Head(bytes) + 1) % CrcModulus)

\* `as i64` of the unsigned checksum, at the model's width.
AsSigned(v) == IF v >= CrcModulus \div 2 THEN v - CrcModulus ELSE v

checksum_file(bytes) == AsSigned(CrcFold(bytes, 0))

\* ------------------------------------------------------------- classifier
SupportedExtensions ==
  { <<"csv">>, <<"doc">>, <<"docm">>, <<"docx">>, <<"eml">>, <<"jpeg">>,
    <<"jpg">>, <<"msg">>, <<"ods">>, <<"odt">>, <<"pdf">>, <<"png">>,
    <<"txt">>, <<"xlam">>, <<"xls">>, <<"xlsb">>, <<"xlsm">>, <<"xlsx">> }

MAGIC_BYTES ==
  << [extension |-> <<"7z">>,   bytes |-> <<55, 122, 188, 175, 39, 28>>],
     [extension |-> <<"pdf">>,  bytes |-> <<37, 80, 68, 70, 45>>],
     [extension |-> <<"zip">>,  bytes |-> <<80, 75, 3, 4>>],
     [extension |-> <<"txt">>,  bytes |-> <<239, 187, 191>>],
     [extension |-> <<"gzip">>, bytes |-> <<31, 139>>],
     [extension |-> <<"txt">>,  bytes |-> <<254, 255>>],
     [extension |-> <<"txt">>,  bytes |-> <<255, 254>>] >>

SniffLen == 16

PanicTag == <<"!panic">>

RECURSIVE MagicMatch(_, _, _)
MagicMatch(header, i, dflt) ==
  IF i > Len(MAGIC_BYTES) THEN dflt
  ELSE IF MAGIC_BYTES[i].bytes = SubSeq(header, 1, Len(MAGIC_BYTES[i].bytes))
         THEN MAGIC_BYTES[i].extension
         ELSE MagicMatch(header, i + 1, dflt)

get_effective_file_extension(filepath, fls) ==
  LET file_extension == to_lowercase(extension(file_name(filepath)))
  IN IF file_extension \in SupportedExtensions THEN file_extension
     ELSE IF Norm(filepath) \notin DOMAIN fls THEN PanicTag
     ELSE LET bytes == fls[Norm(filepath)].bytes
          IN IF Len(bytes) < SniffLen THEN file_extension
             ELSE MagicMatch(SubSeq(bytes, 1, 6), 1, file_extension)

\* ------------------------------------------------------------- file system
\* d is the state threaded through one decomposition: the accumulator, the
\* files and directories on disk, the number of ids drawn, and st = "ok",
\* "err" (an Err propagated by ?) or "panic".
Fail(d, how) == [d EXCEPT !.st = how]

Prefixes(p) == { SubSeq(p, 1, k) : k \in 1..Len(p) }

create_dir_all(d, path) ==
  LET n == Norm(path)
  IN IF \E q \in Prefixes(n) : q \in DOMAIN d.files THEN Fail(d, "err")
     ELSE [d EXCEPT !.dirs = @ \cup Prefixes(n)]

CanWrite(d, path) ==
  LET n == Norm(path)
  IN Len(n) > 1 /\ Parent(n) \in d.dirs /\ n \notin d.dirs

PutFile(d, path, blob) == [d EXCEPT !.files = (Norm(path) :> blob) @@ @]

\* File::create(&outpath)? followed by io::copy
file_create(d, path, blob) ==
  IF CanWrite(d, path) THEN PutFile(d, path, blob) ELSE Fail(d, "err")

\* A variant that records every descriptor one level deeper.
SubFileItem_deeper(p, dep, parents, ok) ==
  [filepath |-> p, depth |-> dep + 1, parent_files |-> parents,
   ok_to_extract_text |-> ok]

SubFileItem(p, dep, parents, ok) ==
  [filepath |-> p, depth |-> dep, parent_files |-> parents,
   ok_to_extract_text |-> ok]

Push(d, item) == [d EXCEPT !.list = Append(@, item)]

RawBlob(bytes) == [bytes |-> bytes, fmt |-> "raw"]

FILENAME_ILLEGAL_CHARS == {"/", "?", "<", ">", "\\", ":", "*", "|", "\""}

\* name.retain(|c| !FILENAME_ILLEGAL_CHARS.contains(&c))
retain_legal(name) == SelectSeq(name, LAMBDA t : t \notin FILENAME_ILLEGAL_CHARS)

\* ----------------------------------------------------------- decomposition
RECURSIVE extract_archive(_, _, _, _)

\* match fs::write(&outpath, data): Ok recurses into the written file, Err is
\* logged and the unit is skipped.
write_and_recurse(outpath, blob, dep, parents, d) ==
  IF CanWrite(d, outpath)
    THEN extract_archive(outpath, dep, parents, PutFile(d, outpath, blob))
    ELSE d

\* -- 7z
RECURSIVE sevenz_unpack(_, _, _, _)
sevenz_unpack(i, entries, outpath, d) ==
  IF i > Len(entries) THEN d
  ELSE LET e == entries[i]
           target == outpath \o e.name
           d2 == IF e.is_dir THEN create_dir_all(d, target)
                 ELSE LET dd == create_dir_all(d, Parent(target))
                      IN IF dd.st = "ok" /\ CanWrite(dd, target)
                           THEN PutFile(dd, target, e.blob) ELSE dd
       IN sevenz_unpack(i + 1, entries, outpath, [d2 EXCEPT !.st = "ok"])

RECURSIVE sevenz_walk(_, _, _, _)
sevenz_walk(i, entries, ctx, d) ==
  IF d.st # "ok" \/ i > Len(entries) THEN d
  ELSE LET path == ctx.subdir \o entries[i].name
       IN IF Norm(path) \in DOMAIN d.files
            THEN sevenz_walk(i + 1, entries, ctx,
                   extract_archive(path, ctx.depth + 1, ctx.new_parent_files, d))
            ELSE sevenz_walk(i + 1, entries, ctx, d)

branch_7z(ctx, d) ==
  LET src == Norm(ctx.filepath)
      good == src \in DOMAIN d.files /\ d.files[src].fmt = "sevenz"
      entries == IF good THEN d.files[src].kids ELSE <<>>
  IN sevenz_walk(1, entries, ctx, sevenz_unpack(1, entries, ctx.subdir, d))

\* -- zip
\* ZipFile::mangled_name: root and ".." components are dropped.
mangled_name(name) == SelectSeq(name, LAMBDA c : c # RootDir /\ c # DotDot)

RECURSIVE zip_entries(_, _, _, _)
zip_entries(i, entries, ctx, d) ==
  IF d.st # "ok" \/ i > Len(entries) THEN d
  ELSE LET zipfile == entries[i]
           outpath == ctx.subdir \o mangled_name(zipfile.name)
       IN IF zipfile.corrupt THEN Fail(d, "err")
          ELSE IF zipfile.is_dir
            THEN zip_entries(i + 1, entries, ctx, create_dir_all(d, outpath))
          ELSE LET d2 == create_dir_all(d, Parent(outpath))
                   d3 == IF d2.st = "ok"
                           THEN file_create(d2, outpath, zipfile.blob) ELSE d2
                   d4 == IF d3.st = "ok"
                           THEN extract_archive(outpath, ctx.depth + 1,
                                                ctx.new_parent_files, d3)
                           ELSE d3
               IN zip_entries(i + 1, entries, ctx, d4)

\* File::open(filepath)? ; ZipArchive::new(file)?
open_zip(ctx, d) ==
  LET src == Norm(ctx.filepath)
  IN src \in DOMAIN d.files /\ d.files[src].fmt = "zip"

\* branch_zip with the entry loop ending one entry early.
branch_zip_short(ctx, d) ==
  IF ~open_zip(ctx, d) THEN Fail(d, "err")
  ELSE LET kids == d.files[Norm(ctx.filepath)].kids
       IN zip_entries(1, SubSeq(kids, 1, Len(kids) - 1), ctx, d)

branch_zip(ctx, d) ==
  IF ~open_zip(ctx, d) THEN Fail(d, "err")
  ELSE zip_entries(1, d.files[Norm(ctx.filepath)].kids, ctx, d)

\* -- docx, docm, odt
RECURSIVE EnclosedFrom(_, _)
EnclosedFrom(name, level) ==
  IF name = <<>> THEN TRUE
  ELSE IF Head(name) = RootDir THEN FALSE
  ELSE IF Head(name) = DotDot
         THEN level > 0 /\ EnclosedFrom(Tail(name), level - 1)
         ELSE EnclosedFrom(Tail(name), level + 1)

\* ZipFile::enclosed_name is Some
enclosed_name(name) == EnclosedFrom(name, 0)

ImageExtensions == {<<"png">>, <<"jpeg">>, <<"jpg">>}

RECURSIVE office_images(_, _, _, _, _)
office_images(i, entries, folder, ctx, d) ==
  IF d.st # "ok" \/ i > Len(entries) THEN d
  ELSE LET file == entries[i]
           zipoutpath == file.name
       IN IF file.corrupt THEN Fail(d, "err")
          ELSE IF ~enclosed_name(zipoutpath)
            THEN office_images(i + 1, entries, folder, ctx, d)
          ELSE IF IsPrefix(folder, zipoutpath)
                  /\ extension(file_name(zipoutpath)) \in ImageExtensions
            THEN LET outpath == ctx.subdir \o <<file_name(zipoutpath)>>
                     d2 == create_dir_all(d, Parent(outpath))
                     d3 == IF d2.st = "ok"
                             THEN file_create(d2, outpath, file.blob) ELSE d2
                     d4 == IF d3.st = "ok"
                             THEN extract_archive(outpath, ctx.depth + 1,
                                                  ctx.new_parent_files, d3)
                             ELSE d3
                 IN office_images(i + 1, entries, folder, ctx, d4)
          ELSE office_images(i + 1, entries, folder, ctx, d)

branch_docx(ctx, d) ==
  IF ~open_zip(ctx, d) THEN Fail(d, "err")
  ELSE office_images(1, d.files[Norm(ctx.filepath)].kids,
                     <<Nm("word"), Nm("media")>>, ctx, d)

branch_odt(ctx, d) ==
  IF ~open_zip(ctx, d) THEN Fail(d, "err")
  ELSE office_images(1, d.files[Norm(ctx.filepath)].kids,
                     <<Nm("Pictures")>>, ctx, d)

\* -- eml
BodyTxt == NmExt("body", "txt")

RECURSIVE eml_attachments(_, _, _, _)
eml_attachments(i, atts, ctx, d) ==
  IF d.st # "ok" \/ i > Len(atts) THEN d
  ELSE LET attachment == atts[i]
           temp_filename == <<UuidName(d.uuid)>>
           d1 == [d EXCEPT !.uuid = @ + 1]
           attachment_name == IF attachment.named THEN attachment.name
                              ELSE temp_filename
           outpath == Join(ctx.subdir, attachment_name)
       IN eml_attachments(i + 1, atts, ctx,
            write_and_recurse(outpath, attachment.blob, ctx.depth + 1,
                              ctx.new_parent_files, d1))

branch_eml(ctx, d) ==
  LET src == Norm(ctx.filepath)
  IN IF src \notin DOMAIN d.files THEN Fail(d, "err")
     ELSE IF d.files[src].fmt # "eml" THEN d
     ELSE LET message == d.files[src]
              outpath == ctx.subdir \o <<BodyTxt>>
              d2 == create_dir_all(d, Parent(outpath))
              d3 == IF d2.st = "ok"
                      THEN write_and_recurse(outpath, RawBlob(message.body),
                             ctx.depth + 1, ctx.new_parent_files, d2)
                      ELSE d2
          IN eml_attachments(1, message.atts, ctx, d3)

\* -- msg
\* msg_get_contents panics when the subject or the body stream is missing.
\* A variant that puts up with a missing subject or body stream.
msg_get_contents_lenient(storage) == TRUE

msg_get_contents_ok(storage) == storage.has_subject /\ storage.has_body

\* s = [d, stack]: the decomposition state and msg_attachments_to_traverse.
RECURSIVE msg_attachments(_, _, _, _, _, _)
msg_attachments(i, sub_paths, filesubpath, msgdir, ctx, s) ==
  IF s.d.st # "ok" \/ i > Len(sub_paths) THEN s
  ELSE
    LET sub_path == sub_paths[i]
        d == s.d
    IN CASE sub_path.shape = "bin" ->
              IF ~sub_path.has_name THEN [s EXCEPT !.d = Fail(d, "panic")]
              ELSE
                LET outpath == Join(msgdir, sub_path.name)
                    d2 == create_dir_all(d, Parent(outpath))
                    new_parent_files == ctx.new_parent_files \o filesubpath
                    d3 == IF d2.st = "ok"
                            THEN write_and_recurse(outpath, sub_path.blob,
                                   ctx.depth + 1, new_parent_files, d2)
                            ELSE d2
                IN msg_attachments(i + 1, sub_paths, filesubpath, msgdir, ctx,
                                   [s EXCEPT !.d = d3])
         [] sub_path.shape = "msg" ->
              IF ~sub_path.has_name THEN [s EXCEPT !.d = Fail(d, "panic")]
              ELSE
                LET msg_placeholder_filename ==
                      retain_legal(sub_path.name[1]) \o <<".", "msg">>
                    outpath == msgdir \o <<msg_placeholder_filename>>
                    d2 == create_dir_all(d, Parent(outpath))
                    d3 == IF d2.st = "ok" /\ CanWrite(d2, outpath)
                            THEN Push(PutFile(d2, outpath, RawBlob(<<>>)),
                                   SubFileItem(outpath, ctx.depth,
                                     ctx.new_parent_files \o filesubpath, FALSE))
                            ELSE d2
                    filesubpath2 == Append(filesubpath, msg_placeholder_filename)
                    nested == sub_path.storage
                    bodypath == msgdir \o <<BodyTxt>>
                    d4 == IF d3.st # "ok" THEN d3
                          ELSE IF ~msg_get_contents_ok(nested)
                            THEN Fail(d3, "panic")
                          ELSE create_dir_all(d3, Parent(bodypath))
                    d5 == IF d4.st = "ok"
                            THEN write_and_recurse(bodypath, RawBlob(nested.text),
                                   ctx.depth + 1,
                                   ctx.new_parent_files \o filesubpath2, d4)
                            ELSE d4
                    stack2 == IF d5.st = "ok" /\ nested.atts # <<>>
                                THEN Append(s.stack,
                                       [filesubpath |-> filesubpath2,
                                        sub_paths |-> nested.atts])
                                ELSE s.stack
                IN msg_attachments(i + 1, sub_paths, filesubpath, msgdir, ctx,
                                   [d |-> d5, stack |-> stack2])
         [] OTHER -> [s EXCEPT !.d = Fail(d, "panic")]

\* A variant that handles the entry on top of the work-list and stops.
msg_worklist_once(ctx, s) ==
  IF s.d.st # "ok" \/ s.stack = <<>> THEN s.d
  ELSE LET top == s.stack[Len(s.stack)]
           msgdir == ctx.subdir \o <<UuidName(s.d.uuid)>>
           s1 == [d |-> [s.d EXCEPT !.uuid = @ + 1],
                  stack |-> SubSeq(s.stack, 1, Len(s.stack) - 1)]
       IN msg_attachments(1, top.sub_paths, top.filesubpath, msgdir, ctx, s1).d

RECURSIVE msg_worklist(_, _)
msg_worklist(ctx, s) ==
  IF s.d.st # "ok" \/ s.stack = <<>> THEN s.d
  ELSE LET top == s.stack[Len(s.stack)]
           achive_uuid_msg_subdir == UuidName(s.d.uuid)
           msgdir == ctx.subdir \o <<achive_uuid_msg_subdir>>
           s1 == [d |-> [s.d EXCEPT !.uuid = @ + 1],
                  stack |-> SubSeq(s.stack, 1, Len(s.stack) - 1)]
       IN msg_worklist(ctx,
            msg_attachments(1, top.sub_paths, top.filesubpath, msgdir, ctx, s1))

branch_msg(ctx, d) ==
  LET src == Norm(ctx.filepath)
  IN IF src \notin DOMAIN d.files \/ d.files[src].fmt # "msg"
       THEN Fail(d, "err")
     ELSE
       LET root == d.files[src].storage
       IN IF ~msg_get_contents_ok(root) THEN Fail(d, "panic")
          ELSE
            LET outpath == ctx.subdir \o <<BodyTxt>>
                d2 == create_dir_all(d, Parent(outpath))
                d3 == IF d2.st = "ok"
                        THEN write_and_recurse(outpath, RawBlob(root.text),
                               ctx.depth + 1, ctx.new_parent_files, d2)
                        ELSE d2
                stack == IF root.atts # <<>>
                           THEN <<[filesubpath |-> <<>>, sub_paths |-> root.atts]>>
                           ELSE <<>>
            IN msg_worklist(ctx, [d |-> d3, stack |-> stack])

\* -- pdf (the target_os = "linux" build)
DecTable == <<"1", "2", "3", "4", "5", "6", "7", "8", "9">>
Pad3Table == <<"000", "001", "002", "003", "004", "005", "006", "007", "008">>

\* format!("page {}", page_number)
PageName(n) == <<"page ", DecTable[n]>>

\* "page {} image" followed by format!("-{:03}.ppm", iimg)
PageImageName(n, iimg) ==
  <<"page ", DecTable[n], " image", "-", Pad3Table[iimg + 1], ".", "ppm">>

\* ToolOk without the look at the error stream.
ToolOk_launch_only(d, tool) == d.env[tool] # "nolaunch"

\* A tool run succeeds when it launches and leaves its error stream empty.
ToolOk(d, tool) == d.env[tool] = "ok"

\* command.output(): the tool is invoked; a failed launch or a non-empty
\* error stream panics.
run_tool(d, tool) ==
  LET d1 == [d EXCEPT !.invoked = @ \cup {tool}]
  IN IF ToolOk(d1, tool) THEN d1 ELSE Fail(d1, "panic")

RECURSIVE pdf_images(_, _, _, _, _)
pdf_images(iimg, images, page_number, ctx, d) ==
  IF d.st # "ok" \/ iimg >= Len(images) THEN d
  ELSE LET outpath == ctx.subdir \o <<PageImageName(page_number, iimg)>>
       IN pdf_images(iimg + 1, images, page_number, ctx,
            extract_archive(outpath, ctx.depth + 1, ctx.new_parent_files, d))

RECURSIVE pdf_export_images(_, _, _, _, _)
pdf_export_images(iimg, images, page_number, ctx, d) ==
  IF iimg >= Len(images) THEN d
  ELSE
    LET outpath == ctx.subdir \o <<PageImageName(page_number, iimg)>>
    IN pdf_export_images(iimg + 1, images, page_number, ctx,
         IF CanWrite(d, outpath) THEN PutFile(d, outpath, images[iimg + 1])
         ELSE d)

RECURSIVE pdf_pages(_, _, _, _)
pdf_pages(page_number, pages, ctx, d) ==
  IF d.st # "ok" \/ page_number > Len(pages) THEN d
  ELSE
    LET page == pages[page_number]
        outpath == ctx.subdir \o <<PageName(page_number)>>
        d1 == run_tool(d, "pdftotext")
    IN IF d1.st # "ok" THEN d1
       ELSE
         LET d2 == IF CanWrite(d1, outpath)
                     THEN PutFile(d1, outpath, RawBlob(page.text)) ELSE d1
             d3 == extract_archive(outpath, ctx.depth + 1,
                                   ctx.new_parent_files, d2)
             d4 == IF d3.st # "ok" THEN d3
                   ELSE LET dl == run_tool(d3, "pdfimages")
                        IN IF dl.st # "ok" THEN dl
                           ELSE pdf_images(0, page.images, page_number, ctx,
                                  pdf_export_images(0, page.images,
                                                    page_number, ctx, dl))
         IN pdf_pages(page_number + 1, pages, ctx, d4)

branch_pdf(ctx, d) ==
  LET src == Norm(ctx.filepath)
      d2 == create_dir_all(d, ctx.subdir)
      d3 == IF d2.st = "ok" THEN run_tool(d2, "pdfinfo") ELSE d2
  IN IF d3.st # "ok" THEN d3
     \* pdfinfo reports a missing or malformed document on its error stream
     ELSE IF src \notin DOMAIN d3.files \/ d3.files[src].fmt # "pdf"
       THEN Fail(d3, "panic")
     ELSE IF Len(d3.files[src].pages) = 0 THEN Fail(d3, "panic")
     ELSE pdf_pages(1, d3.files[src].pages, ctx, d3)

\* -- spreadsheets
Tab == 9
Newline == 10
Whitespace == {9, 10, 13, 32}

RECURSIVE row_line(_, _)
row_line(row, icell) ==
  IF icell > Len(row) THEN <<>>
  ELSE (IF icell > 1 THEN <<Tab>> ELSE <<>>) \o row[icell]
       \o row_line(row, icell + 1)

RECURSIVE sheet_text(_, _)
sheet_text(rows, i) ==
  IF i > Len(rows) THEN <<>>
  ELSE LET line == row_line(rows[i], 1)
       IN (IF \E k \in 1..Len(line) : line[k] \notin Whitespace
             THEN Append(line, Newline) ELSE <<>>)
          \o sheet_text(rows, i + 1)

RECURSIVE wb_modules(_, _, _, _)
wb_modules(i, modules, ctx, d) ==
  IF d.st # "ok" \/ i > Len(modules) THEN d
  ELSE LET outpath == ctx.subdir \o <<<<"VBA_">> \o retain_legal(modules[i].name)>>
           d2 == create_dir_all(d, Parent(outpath))
           d3 == IF d2.st = "ok"
                   THEN write_and_recurse(outpath, RawBlob(modules[i].bytes),
                          ctx.depth + 1, ctx.new_parent_files, d2)
                   ELSE d2
       IN wb_modules(i + 1, modules, ctx, d3)

RECURSIVE wb_sheets(_, _, _, _)
wb_sheets(i, sheets, ctx, d) ==
  IF d.st # "ok" \/ i > Len(sheets) THEN d
  ELSE
    LET sheet == sheets[i]
        text == IF sheet.typ = "WorkSheet" THEN sheet_text(sheet.rows, 1)
                ELSE <<>>
    IN IF text = <<>> THEN wb_sheets(i + 1, sheets, ctx, d)
       ELSE
         LET outpath == ctx.subdir \o <<retain_legal(sheet.name)>>
             d2 == create_dir_all(d, Parent(outpath))
             d3 == IF d2.st = "ok"
                     THEN write_and_recurse(outpath, RawBlob(text),
                            ctx.depth + 1, ctx.new_parent_files, d2)
                     ELSE d2
         IN wb_sheets(i + 1, sheets, ctx, d3)

branch_workbook(ctx, d) ==
  LET src == Norm(ctx.filepath)
  IN IF src \notin DOMAIN d.files \/ d.files[src].fmt # "wb"
       THEN Fail(d, "err")
     ELSE wb_sheets(1, d.files[src].sheets, ctx,
            wb_modules(1, d.files[src].modules, ctx, d))

\* A variant that does not know the xlsx tag.
WorkbookTags_no_xlsx ==
  {<<"ods">>, <<"xlam">>, <<"xls">>, <<"xlsb">>, <<"xlsm">>}

WorkbookTags ==
  {<<"ods">>, <<"xlam">>, <<"xls">>, <<"xlsb">>, <<"xlsm">>, <<"xlsx">>}

\* -- the dispatcher
\* depth is a u8 (struct SubFileItem): depth+1 at a call site overflows at
\* DepthWidth, which panics in a build with overflow checks and wraps to 0 in
\* a build without them.
DepthWidth == 256

\* d.calls logs the invocations: the arguments, the effective tag, the
\* position `at` of the list when the invocation began, the length `last` of
\* the list when it returned and whether it changed the file system.
extract_archive(filepath, depth0, parent_files, d0) ==
  IF depth0 >= DepthWidth /\ d0.overflow_checks THEN Fail(d0, "panic")
  ELSE
  LET depth == depth0 % DepthWidth
      achive_uuid_subdir == UuidName(d0.uuid)
      tag == get_effective_file_extension(filepath, d0.files)
      k == Len(d0.calls) + 1
      d1 == [d0 EXCEPT !.uuid = @ + 1,
                       !.calls = Append(@, [filepath |-> filepath,
                                            depth |-> depth,
                                            parent_files |-> parent_files,
                                            tag |-> tag,
                                            at |-> Len(d0.list) + 1,
                                            last |-> Len(d0.list),
                                            wrote |-> FALSE])]
      ctx == [filepath |-> filepath, depth |-> depth,
              parent_files |-> parent_files,
              new_parent_files |-> Append(parent_files, file_name(filepath)),
              subdir |-> tempfiles_location \o <<achive_uuid_subdir>>]
      self(ok) == Push(d1, SubFileItem(filepath, depth, parent_files, ok))
      r == CASE tag = PanicTag -> Fail(d1, "panic")
             [] tag = <<"7z">> -> branch_7z(ctx, self(FALSE))
             [] tag \in {<<"docx">>, <<"docm">>} -> branch_docx(ctx, self(TRUE))
             [] tag = <<"eml">> -> branch_eml(ctx, self(FALSE))
             [] tag = <<"msg">> -> branch_msg(ctx, self(FALSE))
             [] tag = <<"odt">> -> branch_odt(ctx, self(TRUE))
             [] tag = <<"pdf">> -> branch_pdf(ctx, self(FALSE))
             [] tag \in WorkbookTags -> branch_workbook(ctx, self(FALSE))
             [] tag = <<"zip">> -> branch_zip(ctx, self(FALSE))
             [] OTHER -> self(TRUE)
  IN CHOOSE out \in
       { [res EXCEPT !.calls[k].last = Len(res.list),
                     !.calls[k].wrote = (res.files # d0.files
                                         \/ res.dirs # d0.dirs)]
         : res \in {r} } : TRUE

\* ---------------------------------------------------------- text extraction
IsCont(b) == b >= 128 /\ b <= 191

RECURSIVE IsValidUtf8(_)
IsValidUtf8(bytes) ==
  IF bytes = <<>> THEN TRUE
  ELSE LET b == Head(bytes)
           need == IF b < 128 THEN 0
                   ELSE IF b >= 194 /\ b <= 223 THEN 1
                   ELSE IF b >= 224 /\ b <= 239 THEN 2
                   ELSE IF b >= 240 /\ b <= 244 THEN 3
                   ELSE 4
       IN need < 4 /\ Len(bytes) > need
          /\ (\A k \in 2..(need + 1) : IsCont(bytes[k]))
          /\ IsValidUtf8(SubSeq(bytes, need + 2, Len(bytes)))

detect_encoding(bytes, assume_utf8) ==
  IF Len(bytes) > 3 /\ SubSeq(bytes, 1, 3) = <<239, 187, 191>> THEN "UTF_8"
  ELSE IF Len(bytes) > 3 /\ bytes[1] = 254 /\ bytes[2] = 255 THEN "UTF_16BE"
  ELSE IF Len(bytes) > 3 /\ bytes[1] = 255 /\ bytes[2] = 254 THEN "UTF_16LE"
  ELSE IF assume_utf8 THEN "UTF_8"
  ELSE IF IsValidUtf8(bytes) THEN "UTF_8"
  ELSE "WINDOWS_1252"

Replacement == 65533

RECURSIVE DecodeUtf8(_)
DecodeUtf8(bytes) ==
  IF bytes = <<>> THEN <<>>
  ELSE LET b == Head(bytes)
       IN IF b < 128 THEN <<b>> \o DecodeUtf8(Tail(bytes))
          ELSE IF b >= 194 /\ b <= 223 /\ Len(bytes) > 1 /\ IsCont(bytes[2])
            THEN <<64 * (b - 192) + (bytes[2] - 128)>>
                 \o DecodeUtf8(SubSeq(bytes, 3, Len(bytes)))
          ELSE <<Replacement>> \o DecodeUtf8(Tail(bytes))

RECURSIVE DecodeUtf16(_, _)
DecodeUtf16(bytes, big) ==
  IF bytes = <<>> THEN <<>>
  ELSE IF Len(bytes) = 1 THEN <<Replacement>>
  ELSE <<IF big THEN 256 * bytes[1] + bytes[2] ELSE 256 * bytes[2] + bytes[1]>>
       \o DecodeUtf16(SubSeq(bytes, 3, Len(bytes)), big)

StripBom(bytes, bom) ==
  IF Len(bytes) >= Len(bom) /\ SubSeq(bytes, 1, Len(bom)) = bom
    THEN SubSeq(bytes, Len(bom) + 1, Len(bytes)) ELSE bytes

read_file_with_encoding(bytes, encoding) ==
  CASE encoding = "UTF_8" -> DecodeUtf8(StripBom(bytes, <<239, 187, 191>>))
    [] encoding = "UTF_16BE" -> DecodeUtf16(StripBom(bytes, <<254, 255>>), TRUE)
    [] encoding = "UTF_16LE" -> DecodeUtf16(StripBom(bytes, <<255, 254>>), FALSE)
    [] OTHER -> bytes

convert_accented_manual(c) ==
  CASE c \in {225, 224, 227, 226} -> 97
    [] c \in {233, 232, 234} -> 101
    [] c \in {237, 236, 238, 239} -> 105
    [] c \in {243, 242, 245, 244} -> 111
    [] c \in {250, 249, 361, 251} -> 117
    [] c = 241 -> 110
    [] OTHER -> c

IsAsciiGraphic(c) == c >= 33 /\ c <= 126
IsWhitespaceChar(c) ==
  c \in {9, 10, 11, 12, 13, 32, 133, 160, 5760, 8232, 8233, 8239, 8287, 12288}
  \/ (c >= 8192 /\ c <= 8202)

read_text_from_file(bytes) ==
  LET contents == read_file_with_encoding(bytes, detect_encoding(bytes, FALSE))
      folded == IF \E k \in 1..Len(contents) : contents[k] = 0 THEN contents
                ELSE [k \in 1..Len(contents) |-> convert_accented_manual(contents[k])]
  IN SelectSeq(folded, LAMBDA c : IsAsciiGraphic(c) \/ IsWhitespaceChar(c))

\* Docx::open / open_doc_read_data followed by read_to_string: st is "ok"
\* with the text, or "panic" (archive.by_index(i).unwrap()).
RECURSIVE doc_find(_, _, _)
doc_find(i, entries, content_name) ==
  IF i > Len(entries) THEN [st |-> "ok", text |-> <<>>]
  ELSE IF entries[i].corrupt THEN [st |-> "panic", text |-> <<>>]
  ELSE IF entries[i].name = content_name
    THEN [st |-> "ok",
          text |-> IF entries[i].blob.fmt = "xml" THEN entries[i].blob.text
                   ELSE <<>>]
  ELSE doc_find(i + 1, entries, content_name)

doc_text(blob, content_name) ==
  IF blob.fmt # "zip" THEN [st |-> "ok", text |-> <<>>]
  ELSE doc_find(1, blob.kids, content_name)

\* ocr: tesseract must launch; what it writes to its error stream is not
\* looked at; its output file, when it wrote one, is read back and removed.
ocr(blob, env) ==
  IF env["tesseract"] = "nolaunch" THEN [st |-> "panic", text |-> <<>>]
  ELSE [st |-> "ok",
        text |-> IF blob.fmt = "img" THEN read_text_from_file(blob.ocr)
                 ELSE <<>>]

RasterExtensions == {<<"jpeg">>, <<"jpg">>, <<"pgm">>, <<"png">>, <<"ppm">>}

extract_text_from_subfile(file_list_item, blob, env) ==
  LET file_extension ==
        to_lowercase(extension(file_name(file_list_item.filepath)))
  IN IF ~file_list_item.ok_to_extract_text THEN [st |-> "ok", text |-> <<>>]
     ELSE CASE file_extension \in {<<"docx">>, <<"docm">>} ->
                 doc_text(blob, <<Nm("word"), NmExt("document", "xml")>>)
            [] file_extension = <<"odt">> ->
                 doc_text(blob, <<NmExt("content", "xml")>>)
            [] file_extension \in RasterExtensions -> ocr(blob, env)
            [] OTHER -> [st |-> "ok", text |-> read_text_from_file(blob.bytes)]

\* ocr draws one id for its output file.
UsesOcr(file_list_item) ==
  /\ file_list_item.ok_to_extract_text
  /\ to_lowercase(extension(file_name(file_list_item.filepath)))
       \in RasterExtensions

\* -------------------------------------------------------------- reconciler
DELETE_TEMP_FILES == TRUE

None == [some |-> FALSE, text |-> <<>>]
Some(t) == [some |-> TRUE, text |-> t]

FileListItem(fname, parents, crc, size, text_contents) ==
  [filename |-> fname, parent_files |-> parents, crc |-> crc, size |-> size,
   text_contents |-> text_contents]

\* skip_file without the comparison of the fingerprints.
skip_file_by_name(prior, fname, parents, file_crc) ==
  \E k \in 1..Len(prior) :
    /\ prior[k].filename = fname
    /\ prior[k].parent_files = parents

\* The scan of pre_scanned_items for an unchanged entry.
skip_file(prior, fname, parents, file_crc) ==
  \E k \in 1..Len(prior) :
    /\ prior[k].filename = fname
    /\ prior[k].parent_files = parents
    /\ prior[k].crc = file_crc

\* One iteration of the loop over list_of_files_in_archive, the file's
\* metadata having been read: st is "ok" or the way the iteration aborted,
\* rec the record pushed, cleanup whether the temp file is deleted, checked
\* whether the iteration reaches the keep_going test at the end of the body.
leaf_step(sub_file_item, blob, prior, tools) ==
  LET fname == file_name(sub_file_item.filepath)
      file_len == Len(blob.bytes)
      file_crc == checksum_file(blob.bytes)
  IN IF file_len = 0
       THEN [st |-> "ok", checked |-> FALSE, cleanup |-> FALSE, ocr |-> FALSE,
             rec |-> FileListItem(fname, sub_file_item.parent_files, 0,
                                  file_len, Some(<<>>))]
     ELSE IF skip_file(prior, fname, sub_file_item.parent_files, file_crc)
       THEN [st |-> "ok", checked |-> TRUE, cleanup |-> FALSE, ocr |-> FALSE,
             rec |-> FileListItem(fname, sub_file_item.parent_files, file_crc,
                                  file_len, None)]
     ELSE LET r == extract_text_from_subfile(sub_file_item, blob, tools)
          IN [st |-> r.st, checked |-> TRUE,
              cleanup |-> DELETE_TEMP_FILES /\ sub_file_item.depth >= 1,
              ocr |-> UsesOcr(sub_file_item),
              rec |-> FileListItem(fname, sub_file_item.parent_files, file_crc,
                                   file_len, Some(r.text))]

\* loop_ends with the zero-length branch leaving the loop (break for continue).
loop_ends_on_empty(step, flag, i, n) == ~step.checked \/ ~flag \/ i = n

\* The loop ends after this iteration: the list is exhausted, or the
\* iteration reached the test of keep_going and found the flag cleared.
loop_ends(step, flag, i, n) == (step.checked /\ ~flag) \/ i = n

\* std::fs::remove_dir_all on every recorded directory, errors ignored.
Under(dirset, p) == \E t \in dirset : IsPrefix(Norm(t), p)

remove_dirs_files(fls, dirset) ==
  [p \in {q \in DOMAIN fls : ~Under(dirset, q)} |-> fls[p]]

\* the final rmdir of a path ending in ".." fails: that directory stays, empty
remove_dirs_dirs(ds, dirset) ==
  {q \in ds : \/ ~Under(dirset, q)
              \/ \A t \in dirset :
                   IsPrefix(Norm(t), q) => (q = Norm(t) /\ t[Len(t)] = DotDot)}

\* temp_dirs_to_remove is a HashSet: the removal loop visits it in any order
RECURSIVE Orders(_)
Orders(S) ==
  IF S = {} THEN {<<>>}
  ELSE UNION {{<<x>> \o o : o \in Orders(S \ {x})} : x \in S}

\* The directories remove_dir_all still reaches at its turn: a path with ".."
\* steps resolves only while every directory it passes through exists.
RECURSIVE live_dirs(_, _)
live_dirs(ds, order) ==
  IF order = <<>> THEN {}
  ELSE LET t == Head(order)
           reached == \A k \in 1..Len(t) : Norm(SubSeq(t, 1, k)) \in ds
       IN IF reached
            THEN {t} \cup live_dirs(remove_dirs_dirs(ds, {t}), Tail(order))
            ELSE live_dirs(ds, Tail(order))

remove_file(fls, path) == [p \in DOMAIN fls \ {Norm(path)} |-> fls[p]]

Ok(items) == [kind |-> "Ok", items |-> items]
Err == [kind |-> "Err", items |-> <<>>]
Pending == [kind |-> "Pending", items |-> <<>>]

\* ------------------------------------------------------------------ inputs
MaxNest == 2
MaxAtt == 2

Home == <<RootDir, Nm("home")>>

FileNode(path, blob) == [path |-> path, named |-> TRUE, blob |-> blob]

Pad(n) == [i \in 1..n |-> 0]
ZipMagic == <<80, 75, 3, 4>>
SevenzMagic == <<55, 122, 188, 175, 39, 28>>
PdfMagic == <<37, 80, 68, 70, 45>>
CfbMagic == <<208, 207, 17, 224>>

RECURSIVE KidsDigest(_, _)
KidsDigest(kids, c) ==
  IF kids = <<>> THEN c
  ELSE KidsDigest(Tail(kids),
         CrcFold(Head(kids).blob.bytes, (c + Len(Head(kids).path)) % CrcModulus))

\* The bytes of a well-formed container: its signature, padding up to the
\* sniffing length, and a byte that depends on what it holds.
ContainerBytes(magic, kids) ==
  magic \o Pad(SniffLen - Len(magic) - 1) \o <<KidsDigest(kids, 1)>>

XmlBlob(text) == [bytes |-> <<60>> \o text \o <<62>>, fmt |-> "xml", text |-> text]
ImgBlob(k) == [bytes |-> <<137, 80, k>>, fmt |-> "img", ocr |-> <<111, 107, k>>]

ZipEntry(node) ==
  [name |-> node.path, is_dir |-> FALSE, corrupt |-> FALSE, blob |-> node.blob]

MsgText == <<83, 10, 10, 66>>
NoStorage == [has_subject |-> FALSE, has_body |-> FALSE, text |-> <<>>, atts |-> <<>>]
Storage(atts) ==
  [has_subject |-> TRUE, has_body |-> TRUE, text |-> MsgText, atts |-> atts]
BinAtt(node) ==
  [shape |-> "bin", has_name |-> node.named, name |-> node.path,
   blob |-> node.blob, storage |-> NoStorage]
MsgAtt(displayname, storage) ==
  [shape |-> "msg", has_name |-> TRUE, name |-> <<displayname>>,
   blob |-> RawBlob(<<>>), storage |-> storage]
OddAtt ==
  [shape |-> "none", has_name |-> TRUE, name |-> <<Nm("x")>>,
   blob |-> RawBlob(<<>>), storage |-> NoStorage]

MsgBlob(storage, k) ==
  [bytes |-> CfbMagic \o <<Len(storage.atts), k>>, fmt |-> "msg",
   storage |-> storage]

Mk(kind, stem, kids) ==
  CASE kind = "zip" ->
         FileNode(<<NmExt(stem, "zip")>>,
           [bytes |-> ContainerBytes(ZipMagic, kids), fmt |-> "zip",
            kids |-> [i \in 1..Len(kids) |-> ZipEntry(kids[i])]])
    [] kind = "sevenz" ->
         FileNode(<<NmExt(stem, "7z")>>,
           [bytes |-> ContainerBytes(SevenzMagic, kids), fmt |-> "sevenz",
            kids |-> [i \in 1..Len(kids) |->
                        [name |-> mangled_name(kids[i].path), is_dir |-> FALSE,
                         blob |-> kids[i].blob]]])
    [] kind = "eml" ->
         FileNode(<<NmExt(stem, "eml")>>,
           [bytes |-> <<70, 114, 111, 109, 58, KidsDigest(kids, 1)>>,
            fmt |-> "eml", body |-> <<83, 66>>,
            atts |-> [i \in 1..Len(kids) |->
                        [named |-> kids[i].named, name |-> kids[i].path,
                         blob |-> kids[i].blob]]])
    [] kind = "msg" ->
         FileNode(<<NmExt(stem, "msg")>>,
           MsgBlob(Storage([i \in 1..Len(kids) |-> BinAtt(kids[i])]),
                   KidsDigest(kids, 1)))

NestKinds == {"zip", "sevenz", "eml", "msg"}
StemTable == <<"c1", "c2", "c3", "c4", "c5">>

P_txt == FileNode(<<NmExt("a", "txt")>>, RawBlob(<<104, 105>>))
P_txt2 == FileNode(<<NmExt("b", "txt")>>, RawBlob(<<104, 111>>))
P_empty == FileNode(<<NmExt("e", "txt")>>, RawBlob(<<>>))
P_emptyzip == FileNode(<<NmExt("z", "zip")>>, RawBlob(<<>>))
P_badzip == FileNode(<<NmExt("b", "zip")>>, RawBlob(<<120, 121>>))
P_sniffzip == FileNode(<<Nm("data")>>, RawBlob(ZipMagic \o Pad(12)))
P_bad7z == FileNode(<<NmExt("b", "7z")>>, RawBlob(<<120>>))
P_bademl == FileNode(<<NmExt("b", "eml")>>, RawBlob(<<120>>))
P_baddocx == FileNode(<<NmExt("b", "docx")>>, RawBlob(<<120>>))
P_badodt == FileNode(<<NmExt("b", "odt")>>, RawBlob(<<120>>))
P_badmsg == FileNode(<<NmExt("b", "msg")>>, RawBlob(<<120>>))
P_badxls == FileNode(<<NmExt("b", "xls")>>, RawBlob(<<120>>))
P_png == FileNode(<<NmExt("i", "png")>>, ImgBlob(1))
P_abs == FileNode(<<RootDir, Nm("home"), NmExt("victim", "txt")>>,
                  RawBlob(<<118>>))
P_dotdot == FileNode(<<DotDot, DotDot, DotDot, Nm("home"),
                       NmExt("victim", "txt")>>, RawBlob(<<118>>))
P_up == FileNode(<<DotDot, NmExt("u", "txt")>>, RawBlob(<<117>>))
P_sub == FileNode(<<Nm("dir"), NmExt("s", "txt")>>, RawBlob(<<115>>))
P_noname == [path |-> <<NmExt("n", "txt")>>, named |-> FALSE,
             blob |-> RawBlob(<<110>>)]
P_docx ==
  FileNode(<<NmExt("d", "docx")>>,
    [bytes |-> ZipMagic \o <<100>>, fmt |-> "zip",
     kids |-> << [name |-> <<Nm("word"), NmExt("document", "xml")>>,
                  is_dir |-> FALSE, corrupt |-> FALSE,
                  blob |-> XmlBlob(<<100, 111, 99>>)],
                 [name |-> <<Nm("word"), Nm("media"), NmExt("i", "png")>>,
                  is_dir |-> FALSE, corrupt |-> FALSE, blob |-> ImgBlob(2)] >>])
P_odt ==
  FileNode(<<NmExt("o", "odt")>>,
    [bytes |-> ZipMagic \o <<111>>, fmt |-> "zip",
     kids |-> << [name |-> <<NmExt("content", "xml")>>,
                  is_dir |-> FALSE, corrupt |-> FALSE,
                  blob |-> XmlBlob(<<111, 100, 116>>)],
                 [name |-> <<Nm("Pictures"), NmExt("p", "jpg")>>,
                  is_dir |-> FALSE, corrupt |-> FALSE, blob |-> ImgBlob(3)] >>])
P_xlsx ==
  FileNode(<<NmExt("w", "xlsx")>>,
    [bytes |-> ZipMagic \o <<119>>, fmt |-> "wb",
     modules |-> << [name |-> <<"Mod", "/", "1">>, bytes |-> <<83, 117, 98>>] >>,
     sheets |-> << [name |-> <<"Sheet", ":", "1">>, typ |-> "WorkSheet",
                    rows |-> << <<<<49>>, <<50>>>>, <<<<32>>, <<>>>> >>],
                   [name |-> <<"Chart">>, typ |-> "ChartSheet", rows |-> <<>>] >>])
P_pdf ==
  FileNode(<<NmExt("p", "pdf")>>,
    [bytes |-> PdfMagic \o <<49>>, fmt |-> "pdf",
     pages |-> << [text |-> <<112, 49>>, images |-> <<ImgBlob(4)>>],
                  [text |-> <<>>, images |-> <<>>] >>])

Payloads ==
  { P_txt, P_empty, P_emptyzip, P_badzip, P_sniffzip, P_bad7z, P_bademl,
    P_baddocx, P_badodt, P_badmsg, P_badxls, P_png, P_abs, P_dotdot, P_up,
    P_sub,
    P_noname, P_docx, P_odt, P_xlsx, P_pdf }

SibChoices == { <<>>, <<P_txt2>> }

\* Nesting chains, outermost container first: any kind innermost, the kinds
\* of OuterKinds around it.
OuterKinds == {"zip", "eml"}
Chains ==
  { <<>> } \cup
  UNION { { outer \o <<k>> : outer \in [1..(n - 1) -> OuterKinds], k \in NestKinds } :
            n \in 1..MaxNest }

\* A changed version of a file: one more byte.
AltNode(node) == [node EXCEPT !.blob.bytes = @ \o <<33>>]

RECURSIVE Tree(_, _, _, _)
Tree(chain, level, payload, sibs) ==
  IF level > Len(chain) THEN payload
  ELSE Mk(chain[level], StemTable[level],
          <<Tree(chain, level + 1, payload, sibs)>> \o sibs)

\* Message storages, nested up to the given level.
RECURSIVE CoreStorages(_)
CoreStorages(level) ==
  IF level = 0 THEN { Storage(<<>>), Storage(<<BinAtt(P_txt)>>) }
  ELSE { Storage(<<>>), Storage(<<BinAtt(P_txt)>>) }
       \cup { Storage(<<MsgAtt(<<"in", "/", "ner">>, s)>>) :
                s \in CoreStorages(level - 1) }

AttChoices(level) ==
  { BinAtt(P_txt), BinAtt(P_txt2), BinAtt(FileNode(<<BodyTxt>>, RawBlob(<<98>>))),
    BinAtt(P_noname), OddAtt,
    MsgAtt(<<"bad">>, [Storage(<<>>) EXCEPT !.has_body = FALSE]) }
  \cup (IF level = 0 THEN {}
        ELSE { MsgAtt(<<"Fw", ":", "x">>, s) : s \in CoreStorages(level - 1) })

\* The attachments that follow the first one of a message.
MoreAtts == { BinAtt(P_txt2), MsgAtt(<<"Re", "?">>, Storage(<<>>)) }

MsgStorages ==
  { Storage(<<first>> \o more) :
      first \in AttChoices(MaxNest),
      more \in UNION { [1..n -> MoreAtts] : n \in 0..(MaxAtt - 1) } }
  \cup { Storage(<<>>), [Storage(<<>>) EXCEPT !.has_subject = FALSE] }

Tools == {"pdfinfo", "pdftotext", "pdfimages", "tesseract"}
AllOk == [t \in Tools |-> "ok"]
Envs ==
  {AllOk} \cup { [AllOk EXCEPT ![t] = how] :
                   t \in Tools, how \in {"stderr", "nolaunch"} }

ArcDescs ==
  { [family |-> "arc", chain |-> c, payload |-> p, sibs |-> s,
     storage |-> NoStorage, alt |-> FALSE] :
      c \in Chains, p \in Payloads, s \in SibChoices }

MsgDescs ==
  { [family |-> "msg", chain |-> <<>>, payload |-> P_txt, sibs |-> <<>>,
     storage |-> s, alt |-> FALSE] : s \in MsgStorages }

ToolDescs ==
  { [family |-> "tool", chain |-> c, payload |-> p, sibs |-> <<>>,
     storage |-> NoStorage, alt |-> FALSE] :
      c \in { <<>>, <<"zip">>, <<"eml">> }, p \in { P_pdf, P_png, P_docx } }

\* The top-level file a descriptor stands for.
InputNode(desc) ==
  IF desc.family = "msg"
    THEN FileNode(<<NmExt("top", "msg")>>,
                  MsgBlob(desc.storage, IF desc.alt THEN 1 ELSE 0))
    ELSE Tree(desc.chain, 1,
              IF desc.alt THEN AltNode(desc.payload) ELSE desc.payload,
              desc.sibs)

InputPath(desc) == Home \o <<file_name(InputNode(desc).path)>>

\* ------------------------------------------------------------------- state
VARIABLES
  scan_input,                \* descriptor of the top-level input of this call
  filepath,                  \* the caller-supplied path
  files, dirs,               \* the file system: path -> content, directories
  env,                       \* how each external tool behaves
  pre_scanned_items,         \* the caller-supplied prior results
  keep_going,                \* the shared cancellation flag
  pc,                        \* "start", "loop", "ok", "err", "panic"
  list_of_files_in_archive,  \* the flat leaf list
  idx,                       \* position of the loop in the leaf list
  file_list_items,           \* the records pushed so far
  temp_dirs_to_remove,
  uuid,                      \* number of the next random id
  returned,                  \* what the call handed back to the caller
  invoked,                   \* the external tools run so far in this call
  calls,                     \* the invocations of extract_archive of this call
  leaf_bytes,                \* the bytes each processed leaf had when read
  cancel_at,                 \* records pushed when the flag was cleared, or -1
  run,                       \* number of the current call
  prev                       \* descriptor and result of the previous call

vars ==
  <<scan_input, filepath, files, dirs, env, pre_scanned_items, keep_going, pc,
    list_of_files_in_archive, idx, file_list_items, temp_dirs_to_remove, uuid,
    returned, invoked, calls, leaf_bytes, cancel_at, run, prev>>

NoPrev == [desc |-> <<>>, items |-> <<>>]

\* A file in the scratch directory of another scan that is running at the
\* same time: its directory is named by an id this scan never draws.
PeerFile == tempfiles_location \o <<Nm("peer"), NmExt("o", "txt")>>

\* Records the caller kept from a scan that met the same files inside another
\* container: same names and fingerprints, a different lineage.
Relocated(items) ==
  [k \in 1..Len(items) |->
     [items[k] EXCEPT !.parent_files = <<NmExt("old", "zip")>> \o @]]

InitWith(desc, tools) ==
  /\ scan_input = desc
  /\ filepath = InputPath(desc)
  /\ files = (InputPath(desc) :> InputNode(desc).blob)
             @@ (Home \o <<NmExt("other", "txt")>> :> RawBlob(<<111>>))
             @@ (PeerFile :> RawBlob(<<112>>))
  /\ dirs = {<<RootDir>>, Home, <<RootDir, Nm("tmp")>>}
            \cup Prefixes(Parent(PeerFile))
  /\ env = tools
  /\ pre_scanned_items = <<>>
  /\ keep_going = TRUE
  /\ pc = "start"
  /\ list_of_files_in_archive = <<>>
  /\ idx = 1
  /\ file_list_items = <<>>
  /\ temp_dirs_to_remove = {}
  /\ uuid = 1
  /\ returned = Pending
  /\ invoked = {}
  /\ calls = <<>>
  /\ leaf_bytes = <<>>
  /\ cancel_at = -1
  /\ run = 1
  /\ prev = NoPrev

Init ==
  \/ \E desc \in ArcDescs \cup MsgDescs : InitWith(desc, AllOk)
  \/ \E desc \in ToolDescs, tools \in Envs : InitWith(desc, tools)

\* A variant that consults the flag before decomposing.
Scan_reads_flag(depth0, checks) ==
  /\ pc = "start"
  /\ LET d == extract_archive(filepath, depth0, <<>>,
                [list |-> <<>>, files |-> files, dirs |-> dirs, uuid |-> uuid,
                 st |-> "ok", env |-> env, invoked |-> {}, calls |-> <<>>,
                 overflow_checks |-> checks])
     IN IF keep_going
          THEN /\ files' = d.files
               /\ dirs' = d.dirs
               /\ uuid' = d.uuid
               /\ invoked' = d.invoked
               /\ calls' = d.calls
               /\ list_of_files_in_archive' = d.list
               /\ pc' = IF d.st = "ok" THEN "loop" ELSE d.st
               /\ returned' = IF d.st = "ok" THEN returned ELSE Err
          ELSE /\ pc' = "ok"
               /\ returned' = Ok(<<>>)
               /\ UNCHANGED <<files, dirs, uuid, invoked, calls,
                              list_of_files_in_archive>>
  /\ UNCHANGED <<scan_input, filepath, env, pre_scanned_items, keep_going, idx,
                 file_list_items, temp_dirs_to_remove, leaf_bytes, cancel_at,
                 run, prev>>

\* extract_text_from_file up to the loop: the call of extract_archive on the
\* top-level file. The code passes depth 0 and an empty lineage; depth0 and
\* checks (the build's overflow checks) are parameters so that the recursion
\* can also be entered at the level it reaches inside deeply nested input.
Scan(depth0, checks) ==
  /\ pc = "start"
  /\ LET d == extract_archive(filepath, depth0, <<>>,
                [list |-> <<>>, files |-> files, dirs |-> dirs, uuid |-> uuid,
                 st |-> "ok", env |-> env, invoked |-> {}, calls |-> <<>>,
                 overflow_checks |-> checks])
     IN /\ files' = d.files
        /\ dirs' = d.dirs
        /\ uuid' = d.uuid
        /\ invoked' = d.invoked
        /\ calls' = d.calls
        /\ list_of_files_in_archive' = d.list
        /\ pc' = IF d.st = "ok" THEN "loop" ELSE d.st
        /\ returned' = IF d.st = "ok" THEN returned ELSE Err
  /\ UNCHANGED <<scan_input, filepath, env, pre_scanned_items, keep_going, idx,
                 file_list_items, temp_dirs_to_remove, leaf_bytes, cancel_at,
                 run, prev>>

StartScan == Scan(0, TRUE)

\* One iteration of the loop over the leaf list; when the loop ends with it,
\* also the removal of the recorded directories and the return.
ProcessLeaf ==
  /\ pc = "loop"
  /\ LET sub_file_item == list_of_files_in_archive[idx]
         path == Norm(sub_file_item.filepath)
     IN IF path \notin DOMAIN files \/ file_name(sub_file_item.filepath) = <<>>
          THEN \* metadata() fails
               /\ pc' = "panic"
               /\ returned' = Err
               /\ UNCHANGED <<files, dirs, uuid, invoked, idx, file_list_items,
                              temp_dirs_to_remove, leaf_bytes>>
          ELSE
            LET blob == files[path]
                step == leaf_step(sub_file_item, blob, pre_scanned_items, env)
                items == Append(file_list_items, step.rec)
                tdirs == IF step.cleanup
                           THEN temp_dirs_to_remove
                                \cup {Parent(sub_file_item.filepath)}
                           ELSE temp_dirs_to_remove
                fls == IF step.cleanup
                         THEN remove_file(files, sub_file_item.filepath)
                         ELSE files
                n == Len(list_of_files_in_archive)
            IN /\ uuid' = IF step.ocr THEN uuid + 1 ELSE uuid
               /\ invoked' = IF step.ocr THEN invoked \cup {"tesseract"}
                             ELSE invoked
               /\ IF step.st # "ok"
                    THEN /\ pc' = step.st
                         /\ returned' = Err
                         /\ UNCHANGED <<files, dirs, idx, file_list_items,
                                        temp_dirs_to_remove, leaf_bytes>>
                    ELSE /\ file_list_items' = items
                         /\ leaf_bytes' = Append(leaf_bytes, blob.bytes)
                         /\ temp_dirs_to_remove' = tdirs
                         /\ IF loop_ends(step, keep_going, idx, n)
                              THEN /\ \E live \in
                                        (IF \A t \in tdirs : \A k \in 1..Len(t) :
                                              t[k] # DotDot
                                           THEN {tdirs}
                                           ELSE {live_dirs(dirs, o) :
                                                   o \in Orders(tdirs)}) :
                                        /\ files' = remove_dirs_files(fls, live)
                                        /\ dirs' = remove_dirs_dirs(dirs, live)
                                   /\ pc' = "ok"
                                   /\ returned' = Ok(items)
                                   /\ idx' = idx
                              ELSE /\ files' = fls
                                   /\ dirs' = dirs
                                   /\ pc' = "loop"
                                   /\ returned' = returned
                                   /\ idx' = idx + 1
  /\ UNCHANGED <<scan_input, filepath, env, pre_scanned_items, keep_going,
                 list_of_files_in_archive, calls, cancel_at, run, prev>>

\* The signal watcher clears the flag (keep_going.store(false)).
Cancel ==
  /\ pc \in {"start", "loop"}
  /\ keep_going
  /\ keep_going' = FALSE
  /\ cancel_at' = Len(file_list_items)
  /\ UNCHANGED <<scan_input, filepath, files, dirs, env, pre_scanned_items, pc,
                 list_of_files_in_archive, idx, file_list_items,
                 temp_dirs_to_remove, uuid, returned, invoked, calls,
                 leaf_bytes, run, prev>>

\* After the first scan ran to its end the caller scans the input a second
\* time, unchanged or changed, and passes as pre_scanned_items the records of
\* the first call, or the records it kept of the same files found elsewhere.
Rescan ==
  /\ pc = "ok"
  /\ keep_going
  /\ run = 1
  /\ \E changed \in BOOLEAN :
       LET desc == [scan_input EXCEPT !.alt = changed]
       IN /\ scan_input' = desc
          /\ filepath' = InputPath(desc)
          /\ files' = (InputPath(desc) :> InputNode(desc).blob) @@ files
          /\ dirs' = dirs \cup {<<RootDir>>, Home}
          /\ pre_scanned_items' \in
                IF changed THEN {returned.items}
                ELSE {returned.items, Relocated(returned.items)}
  /\ prev' = [desc |-> scan_input, items |-> returned.items]
  /\ pc' = "start"
  /\ list_of_files_in_archive' = <<>>
  /\ idx' = 1
  /\ file_list_items' = <<>>
  /\ temp_dirs_to_remove' = {}
  /\ returned' = Pending
  /\ invoked' = {}
  /\ calls' = <<>>
  /\ leaf_bytes' = <<>>
  /\ cancel_at' = -1
  /\ run' = run + 1
  /\ UNCHANGED <<env, uuid, keep_going>>

Next == StartScan \/ ProcessLeaf \/ Cancel \/ Rescan

Spec == Init /\ [][Next]_vars

\* The same scan entered at the nesting level where the u8 depth is about to
\* overflow: the invocation of extract_archive that the recursion makes on a
\* file nested DepthWidth - 2 or DepthWidth - 1 containers deep, in a build
\* with or without overflow checks.
StartDeep ==
  \E depth0 \in {DepthWidth - 2, DepthWidth - 1}, checks \in BOOLEAN :
    Scan(depth0, checks)

NextDeep == StartDeep \/ ProcessLeaf \/ Cancel

SpecDeep == Init /\ [][NextDeep]_vars

\* The two file-inspecting functions applied on their own to one file: a name
\* with a supported, an unsupported or no extension, a content that is short,
\* long, carries a signature or a byte-order mark, or no file at all.
InitFn ==
  \E name \in { NmExt("a", "txt"), NmExt("a", "TXT"), NmExt("a", "ZIP"),
                NmExt("a", "bin"), NmExt("a", "pdf"), Nm("a") },
     bytes \in { <<>>, <<65, 66>>, <<233>>, <<195, 169, 65, 66>>,
                 <<239, 187, 191>>, <<239, 187, 191, 65>>,
                 <<254, 255>>, <<254, 255, 0>>, <<254, 255, 0, 65>>,
                 <<255, 254>>, <<255, 254, 65, 0>>,
                 <<80, 75, 3, 4>> \o Pad(SniffLen - 5),
                 <<233>> \o Pad(SniffLen),
                 <<55, 122, 188, 175, 39, 28>> \o Pad(SniffLen),
                 <<37, 80, 68, 70, 45>> \o Pad(SniffLen),
                 <<80, 75, 3, 4>> \o Pad(SniffLen),
                 <<239, 187, 191>> \o Pad(SniffLen),
                 <<31, 139>> \o Pad(SniffLen),
                 <<254, 255>> \o Pad(SniffLen),
                 <<255, 254>> \o Pad(SniffLen) } :
    \E exists \in (IF bytes = <<>> THEN BOOLEAN ELSE {TRUE}),
       assume_utf8 \in BOOLEAN :
      /\ scan_input = [family |-> "fn", name |-> name, bytes |-> bytes,
                       exists |-> exists, assume_utf8 |-> assume_utf8]
      /\ filepath = Home \o <<name>>
      /\ files = IF exists THEN (Home \o <<name>>) :> RawBlob(bytes)
                 ELSE [q \in {} |-> RawBlob(<<>>)]
      /\ dirs = {<<RootDir>>, Home}
      /\ env = AllOk
      /\ pre_scanned_items = <<>>
      /\ keep_going = TRUE
      /\ pc = "start"
      /\ list_of_files_in_archive = <<>>
      /\ idx = 1
      /\ file_list_items = <<>>
      /\ temp_dirs_to_remove = {}
      /\ uuid = 1
      /\ returned = Pending
      /\ invoked = {}
      /\ calls = <<>>
      /\ leaf_bytes = <<>>
      /\ cancel_at = -1
      /\ run = 1
      /\ prev = NoPrev

\* get_effective_file_extension(filepath): returned holds the tag, or the
\* call panics on metadata().
ClassifyFile ==
  /\ pc = "start"
  /\ LET tag == get_effective_file_extension(filepath, files)
     IN /\ pc' = IF tag = PanicTag THEN "panic" ELSE "ok"
        /\ returned' = [kind |-> "extension", items |-> tag]
  /\ UNCHANGED <<scan_input, filepath, files, dirs, env, pre_scanned_items,
                 keep_going, list_of_files_in_archive, idx, file_list_items,
                 temp_dirs_to_remove, uuid, invoked, calls, leaf_bytes,
                 cancel_at, run, prev>>

\* detect_encoding(filepath, assume_utf8): a path that does not exist is
\* answered with UTF_8 before the file is opened.
DetectEncoding ==
  /\ pc = "start"
  /\ pc' = "ok"
  /\ returned' =
       [kind |-> "encoding",
        items |-> IF filepath \in DOMAIN files
                    THEN detect_encoding(files[filepath].bytes,
                                         scan_input.assume_utf8)
                    ELSE "UTF_8"]
  /\ UNCHANGED <<scan_input, filepath, files, dirs, env, pre_scanned_items,
                 keep_going, list_of_files_in_archive, idx, file_list_items,
                 temp_dirs_to_remove, uuid, invoked, calls, leaf_bytes,
                 cancel_at, run, prev>>

NextFn == ClassifyFile \/ DetectEncoding

SpecFn == InitFn /\ [][NextFn]_vars

\* ------------------------------------------------------------------ claims

\* C1: every leaf descriptor that extract_archive appends has a depth equal
\* to the length of its parent_files lineage, the placeholders, bodies and
\* attachments of nested messages of a .msg file included (stated of the
\* lists of the decompositions that ran to their end).
C1_DepthEqualsLineageLength ==
  pc \in {"loop", "ok"} =>
    \A i \in 1..Len(list_of_files_in_archive) :
      list_of_files_in_archive[i].depth
        = Len(list_of_files_in_archive[i].parent_files)

\* C2: the top-level descriptor has depth 0 and an empty lineage; every
\* other descriptor has the depth of its direct container plus one and the
\* container's lineage with the container's display name appended (stated
\* of the lists of the decompositions that ran to their end).
C2_ChildExtendsContainer ==
  LET l == list_of_files_in_archive
  IN (pc \in {"loop", "ok"} /\ l # <<>>) =>
       /\ l[1].depth = 0
       /\ l[1].parent_files = <<>>
       /\ \A i \in 2..Len(l) :
            \E j \in 1..(i - 1) :
              /\ l[i].depth = l[j].depth + 1
              /\ l[i].parent_files
                   = Append(l[j].parent_files, file_name(l[j].filepath))

\* C3: every leaf descriptor of depth >= 1 has a path inside a scratch
\* directory minted under the temp workspace root, whatever the names stored
\* in the input; none of them points at the caller-supplied file.
C3_DerivedLeavesInsideScratch ==
  \A i \in 1..Len(list_of_files_in_archive) :
    LET leaf == list_of_files_in_archive[i]
    IN leaf.depth >= 1 =>
         /\ \E u \in 1..(uuid - 1) :
              IsPrefix(tempfiles_location \o <<UuidName(u)>>,
                       Norm(leaf.filepath))
         /\ Norm(leaf.filepath) # Norm(filepath)

\* C4: when the flag is cleared after exactly N records have been emitted,
\* the call returns Ok with exactly N records, from N = 0 on, whether the
\* leaves are zero-length, skipped or extracted.
C4_CancelAfterNReturnsN ==
  /\ (pc = "ok" /\ cancel_at >= 0) => Len(returned.items) = cancel_at
  /\ (pc = "loop" /\ cancel_at >= 0) => Len(file_list_items) = cancel_at

\* C5: a second scan of the unchanged input with the first scan's records as
\* pre_scanned_items gives text_contents = None for every non-empty leaf and
\* the crc of the first scan for every leaf.
C5_SecondScanSkipsEverything ==
  (run >= 2 /\ scan_input = prev.desc /\ pre_scanned_items = prev.items) =>
    /\ Len(file_list_items) <= Len(prev.items)
    /\ \A i \in 1..Len(file_list_items) :
         /\ i <= Len(prev.items) => file_list_items[i].crc = prev.items[i].crc
         /\ Len(leaf_bytes[i]) > 0 => file_list_items[i].text_contents = None

\* C6: a record has text_contents = None exactly when its leaf file is
\* non-empty and pre_scanned_items holds an entry with the same filename, the
\* same parent_files and the same crc as the leaf; otherwise it is Some; the
\* record carries the crc computed over the bytes of the leaf file.
C6_NoneIffUnchanged ==
  \A i \in 1..Len(file_list_items) :
    LET rec == file_list_items[i]
        leaf == list_of_files_in_archive[i]
        bytes == leaf_bytes[i]
    IN /\ rec.text_contents = None <=>
            /\ Len(bytes) > 0
            /\ \E k \in 1..Len(pre_scanned_items) :
                 /\ pre_scanned_items[k].filename = file_name(leaf.filepath)
                 /\ pre_scanned_items[k].parent_files = leaf.parent_files
                 /\ pre_scanned_items[k].crc = checksum_file(bytes)
       /\ rec.text_contents # None => rec.text_contents.some
       /\ rec.crc = checksum_file(bytes)

\* A second scan of a changed input has returned: one leaf was skipped, one
\* non-empty leaf with a prior entry of its name and lineage was extracted.
C6_Witness ==
  /\ pc = "ok"
  /\ \E i, j \in 1..Len(returned.items) :
       /\ returned.items[i].text_contents = None
       /\ returned.items[j].text_contents # None
       /\ Len(leaf_bytes[j]) > 0
       /\ \E k \in 1..Len(pre_scanned_items) :
            /\ pre_scanned_items[k].filename = returned.items[j].filename
            /\ pre_scanned_items[k].parent_files
                 = returned.items[j].parent_files
            /\ pre_scanned_items[k].crc # returned.items[j].crc

\* C7: a zero-byte leaf yields a record with size 0, crc 0 and Some(""),
\* whatever pre_scanned_items holds; a zero-byte top-level input yields
\* exactly one such record.
C7_ZeroByteLeafRecord ==
  /\ \A i \in 1..Len(file_list_items) :
       Len(leaf_bytes[i]) = 0 =>
         /\ file_list_items[i].size = 0
         /\ file_list_items[i].crc = 0
         /\ file_list_items[i].text_contents = Some(<<>>)
  /\ (pc \in {"ok", "err", "panic"}
      /\ InputNode(scan_input).blob.bytes = <<>>) =>
       /\ returned.kind = "Ok"
       /\ Len(returned.items) = 1
       /\ returned.items[1].size = 0
       /\ returned.items[1].crc = 0
       /\ returned.items[1].text_contents = Some(<<>>)

\* C8: a malformed container (zip, 7z, docx/docm, odt, eml, msg, workbook)
\* at any depth never aborts the scan: its self-entry stays in the leaf
\* list, it gets no children, and the call returns Ok with a record for
\* every leaf.
C8_MalformedContainerTolerated ==
  LET bad == file_name(scan_input.payload.path)
      l == list_of_files_in_archive
  IN (/\ scan_input.family = "arc"
      /\ scan_input.payload \in {P_badzip, P_sniffzip, P_bad7z, P_bademl,
                                 P_baddocx, P_badodt, P_badmsg, P_badxls}) =>
       /\ pc \notin {"err", "panic"}
       /\ pc \in {"loop", "ok"} =>
            /\ \E i \in 1..Len(l) : file_name(l[i].filepath) = bad
            /\ \A i \in 1..Len(l) :
                 l[i].parent_files = <<>>
                 \/ l[i].parent_files[Len(l[i].parent_files)] # bad
       /\ (pc = "ok" /\ keep_going) => Len(returned.items) = Len(l)

C10_RecordsOrError ==
  LET l == list_of_files_in_archive
      items == returned.items
  IN /\ pc \in {"err", "panic"} <=> returned.kind = "Err"
     /\ pc = "ok" <=> returned.kind = "Ok"
     /\ returned.kind = "Err" => items = <<>>
     /\ returned.kind = "Ok" =>
          /\ Len(items) <= Len(l)
          /\ \A i \in 1..Len(items) :
               /\ items[i].filename = file_name(l[i].filepath)
               /\ items[i].parent_files = l[i].parent_files
          /\ Len(items) < Len(l) => ~keep_going

\* A cancelled call has returned a proper, non-empty prefix of the leaf list.
C10_Witness ==
  /\ pc = "ok"
  /\ ~keep_going
  /\ Len(returned.items) > 0
  /\ Len(returned.items) < Len(list_of_files_in_archive)

\* C11: the leaf list is in depth-first order: the descendants of an entry
\* (the entries whose lineage extends the entry's lineage by the entry's
\* name) follow it contiguously, before its next sibling; also for the
\* attachments of a nested message after the nested message's placeholder.
C11_DepthFirstOrder ==
  LET l == list_of_files_in_archive
      below(x, i) ==
        IsPrefix(Append(l[i].parent_files, file_name(l[i].filepath)),
                 l[x].parent_files)
  IN pc \in {"loop", "ok"} =>
       \A i, j, k \in 1..Len(l) :
         (i < j /\ j < k /\ below(k, i)) => below(j, i)

\* C12: a .msg file with one plain attachment and one nested-message
\* attachment yields, in this order, the top self-entry, the body-text leaf,
\* the plain-attachment leaf, the placeholder <name>.msg (non-extractable, at
\* depth 1 with lineage [top.msg]) and the nested body-text leaf (at depth 2
\* with lineage [top.msg, <name>.msg]).
C12_MsgInMsgLeaves ==
  LET l == list_of_files_in_archive
      top == NmExt("top", "msg")
      inner == NmExt("Re", "msg")
      entry(i) == <<file_name(l[i].filepath), l[i].depth, l[i].parent_files,
                    l[i].ok_to_extract_text>>
  IN (/\ pc \in {"loop", "ok"}
      /\ scan_input.family = "msg"
      /\ scan_input.storage
           = Storage(<<BinAtt(P_txt), MsgAtt(<<"Re", "?">>, Storage(<<>>))>>))
     => [i \in 1..Len(l) |-> entry(i)]
          = << <<top, 0, <<>>, FALSE>>,
               <<BodyTxt, 1, <<top>>, TRUE>>,
               <<file_name(P_txt.path), 1, <<top>>, TRUE>>,
               <<inner, 1, <<top>>, FALSE>>,
               <<BodyTxt, 2, <<top, inner>>, TRUE>> >>

\* C13: a zip at depth d with lineage L gets a non-extractable self-entry,
\* then every file entry, in index order, is written under the scratch
\* subdirectory minted by this invocation and decomposed with depth d+1 and
\* lineage L + [archive name]; a zip holding a zip holding one text file
\* yields exactly three records, the text leaf at depth 2 with lineage
\* [outer.zip, inner.zip].
C13_ZipInZip ==
  LET l == list_of_files_in_archive
      outer == NmExt(StemTable[1], "zip")
      inner == NmExt(StemTable[2], "zip")
      text == file_name(P_txt.path)
      sibs == scan_input.sibs
      entry(i) == <<file_name(l[i].filepath), l[i].depth, l[i].parent_files,
                    l[i].ok_to_extract_text>>
      sib(dep, lineage) ==
        [k \in 1..Len(sibs) |-> <<file_name(sibs[k].path), dep, lineage, TRUE>>]
  IN (/\ scan_input.family = "arc"
      /\ scan_input.chain = <<"zip", "zip">>
      /\ scan_input.payload = P_txt) =>
       /\ pc \notin {"err", "panic"}
       /\ pc \in {"loop", "ok"} =>
            /\ [i \in 1..Len(l) |-> entry(i)]
                 = << <<outer, 0, <<>>, FALSE>>,
                      <<inner, 1, <<outer>>, FALSE>>,
                      <<text, 2, <<outer, inner>>, TRUE>> >>
                   \o sib(2, <<outer, inner>>) \o sib(1, <<outer>>)
            /\ \A i \in 2..Len(l) :
                 /\ Len(l[i].filepath) = Len(tempfiles_location) + 2
                 /\ IsPrefix(tempfiles_location, l[i].filepath)
                 /\ Parent(l[i].filepath) = Parent(l[2].filepath)
                      <=> l[i].depth = 1
       /\ (pc = "ok" /\ keep_going) =>
            [i \in 1..Len(returned.items) |->
               <<returned.items[i].filename, returned.items[i].parent_files>>]
              = [i \in 1..Len(l) |-> <<entry(i)[1], entry(i)[3]>>]

\* The scan of a zip holding a zip holding one text file has returned its
\* three records.
C13_Witness ==
  /\ pc = "ok"
  /\ scan_input.family = "arc"
  /\ scan_input.chain = <<"zip", "zip">>
  /\ scan_input.payload = P_txt
  /\ scan_input.sibs = <<>>
  /\ Len(returned.items) = 3
  /\ returned.items[3].parent_files
       = <<NmExt(StemTable[1], "zip"), NmExt(StemTable[2], "zip")>>

\* C14: no step of a scan deletes or overwrites the caller-supplied input
\* file or removes the directory that contains it, whatever names the input
\* stores for its attachments.
C14_InputUntouched ==
  /\ Norm(filepath) \in DOMAIN files
  /\ files[Norm(filepath)] = InputNode(scan_input).blob
  /\ Parent(Norm(filepath)) \in dirs

\* C15: once the reconciler has processed a leaf of depth >= 1, zero-length,
\* skipped or extracted, the leaf's file is deleted and its parent directory
\* is recorded for removal.
C15_ProcessedLeafCleaned ==
  pc \in {"loop", "ok"} =>
    \A i \in 1..Len(file_list_items) :
      LET leaf == list_of_files_in_archive[i]
      IN leaf.depth >= 1 =>
           /\ Norm(leaf.filepath) \notin DOMAIN files
           /\ Parent(leaf.filepath) \in temp_dirs_to_remove

\* C16: a scan neither writes, deletes nor removes what another scan that
\* runs at the same time has created: the file in the other scan's scratch
\* directory and that directory stay as they are.
C16_PeerScratchUntouched ==
  /\ PeerFile \in DOMAIN files
  /\ files[PeerFile] = RawBlob(<<112>>)
  /\ Prefixes(Parent(PeerFile)) \subseteq dirs

\* C17: the cancellation flag plays no part in decomposition or inside a leaf.
\* Whatever the flag's value, the step that decomposes the top-level input
\* yields the complete list extract_archive computes for it, and every
\* iteration of the reconciler loop that does not abort with an error appends
\* the record of its leaf; neither step writes the flag.
C17_FlagOnlyAtLeafBoundary ==
  [][ /\ (pc = "start" /\ pc' # "start") =>
           /\ keep_going' = keep_going
           /\ LET d == extract_archive(filepath, 0, <<>>,
                        [list |-> <<>>, files |-> files, dirs |-> dirs,
                         uuid |-> uuid, st |-> "ok", env |-> env,
                         invoked |-> {}, calls |-> <<>>,
                         overflow_checks |-> TRUE])
              IN /\ list_of_files_in_archive' = d.list
                 /\ pc' = (IF d.st = "ok" THEN "loop" ELSE d.st)
      /\ (pc = "loop" /\ (pc' # "loop" \/ idx' # idx)) =>
           /\ keep_going' = keep_going
           /\ \/ pc' \in {"err", "panic"}
              \/ Len(file_list_items') = Len(file_list_items) + 1
    ]_vars

\* The flag was cleared before the first leaf began: the input was still
\* decomposed into several leaves and the first leaf's record was returned.
C17_Witness ==
  /\ pc = "ok"
  /\ ~keep_going
  /\ cancel_at = 0
  /\ Len(list_of_files_in_archive) > 1
  /\ Len(returned.items) = 1

\* C18: nesting depth is not capped. A leaf nested n containers below a file
\* that is itself at depth m is recorded with depth m + n, for every m and n,
\* also where m + n reaches 256 or more, and a leaf with a non-empty lineage
\* has depth >= 1, which makes the reconciler treat it as a temp file. (Stated
\* for inputs without message containers, whose depths C1 already covers.)
C18_DepthUnbounded ==
  (/\ pc \in {"loop", "ok"}
   /\ scan_input.family = "arc"
   /\ \A k \in 1..Len(scan_input.chain) : scan_input.chain[k] # "msg") =>
    \A i \in 1..Len(list_of_files_in_archive) :
      LET leaf == list_of_files_in_archive[i]
      IN /\ leaf.depth = list_of_files_in_archive[1].depth
                           + Len(leaf.parent_files)
         /\ (Len(leaf.parent_files) >= 1 => leaf.depth >= 1)

\* C19: every invocation of extract_archive that gets past classification
\* appends exactly one descriptor for the path it was called on, carrying the
\* depth and lineage of the call, and that descriptor is the first one the
\* invocation appends: everything else it (and the invocations below it)
\* appends comes after it.
C19_SelfEntryFirst ==
  \A k \in 1..Len(calls) :
    LET c == calls[k]
    IN c.tag # PanicTag =>
         /\ c.at <= c.last
         /\ c.last <= Len(list_of_files_in_archive)
         /\ list_of_files_in_archive[c.at].filepath = c.filepath
         /\ list_of_files_in_archive[c.at].depth = c.depth
         /\ list_of_files_in_archive[c.at].parent_files = c.parent_files
         /\ \A j \in (c.at + 1)..c.last :
              list_of_files_in_archive[j].filepath # c.filepath

\* A finished scan with at least three invocations, one of them a container
\* below the top level and one a plain file inside it.
C19_Witness ==
  /\ pc = "ok"
  /\ Len(calls) >= 3
  /\ \E k \in 1..Len(calls) :
       /\ calls[k].depth >= 1
       /\ calls[k].last > calls[k].at
  /\ \E k \in 1..Len(calls) :
       /\ calls[k].depth >= 2
       /\ calls[k].last = calls[k].at

\* C20: the self-entry of an invocation is marked extractable exactly when
\* the effective tag is none of 7z, zip, eml, msg, pdf, ods, xlam, xls, xlsb,
\* xlsm, xlsx (that is: docx, docm, odt, or a generic tag); an invocation on
\* a generic tag appends nothing but its self-entry and creates no file or
\* directory.
C20_ExtractableByTag ==
  \A k \in 1..Len(calls) :
    LET c == calls[k]
        container == c.tag \in {<<"7z">>, <<"zip">>, <<"eml">>, <<"msg">>,
                                <<"pdf">>, <<"ods">>, <<"xlam">>, <<"xls">>,
                                <<"xlsb">>, <<"xlsm">>, <<"xlsx">>}
        markup == c.tag \in {<<"docx">>, <<"docm">>, <<"odt">>}
    IN c.tag # PanicTag =>
         /\ list_of_files_in_archive[c.at].ok_to_extract_text = ~container
         /\ (~container /\ ~markup) => (c.last = c.at /\ ~c.wrote)

\* A finished scan whose invocations met a spreadsheet tag, a markup tag or a
\* generic tag below a container.
C20_Witness ==
  /\ pc = "ok"
  /\ \E k \in 1..Len(calls) : calls[k].tag = <<"xlsx">>
  /\ \E k \in 1..Len(calls) :
       /\ calls[k].depth >= 1
       /\ calls[k].tag \notin {<<"7z">>, <<"zip">>, <<"eml">>, <<"msg">>,
                                <<"pdf">>, <<"ods">>, <<"xlam">>, <<"xls">>,
                                <<"xlsb">>, <<"xlsm">>, <<"xlsx">>,
                                <<"docx">>, <<"docm">>, <<"odt">>}

\* C21: get_effective_file_extension returns, for every path, the lowercased
\* extension when it is a supported one; otherwise, when the file has at
\* least 16 bytes and some MAGIC_BYTES signature is a prefix of its first 6
\* bytes, the extension of the first such entry in table order; otherwise
\* (short file, no match, file that cannot be read) the lowercased extension.
C21_EffectiveExtension ==
  (pc # "start" /\ returned.kind = "extension") =>
    LET ext == to_lowercase(extension(scan_input.name))
        bytes == scan_input.bytes
        hits == { i \in 1..Len(MAGIC_BYTES) :
                    /\ Len(MAGIC_BYTES[i].bytes) <= 6
                    /\ Len(MAGIC_BYTES[i].bytes) <= Len(bytes)
                    /\ SubSeq(bytes, 1, Len(MAGIC_BYTES[i].bytes))
                         = MAGIC_BYTES[i].bytes }
    IN /\ pc = "ok"
       /\ returned.items =
            IF ext \in { <<"csv">>, <<"doc">>, <<"docm">>, <<"docx">>,
                         <<"eml">>, <<"jpeg">>, <<"jpg">>, <<"msg">>,
                         <<"ods">>, <<"odt">>, <<"pdf">>, <<"png">>,
                         <<"txt">>, <<"xlam">>, <<"xls">>, <<"xlsb">>,
                         <<"xlsm">>, <<"xlsx">> }
              THEN ext
            ELSE IF scan_input.exists /\ Len(bytes) >= 16 /\ hits # {}
              THEN MAGIC_BYTES[CHOOSE i \in hits : \A j \in hits : i <= j]
                     .extension
            ELSE ext

\* C22: for an existing file of any length detect_encoding answers UTF-8 when
\* the file starts with EF BB BF, UTF-16BE when it starts with FE FF and
\* UTF-16LE when it starts with FF FE, whatever assume_utf8 is; without such
\* a prefix it answers UTF-8 when assume_utf8 is set, and otherwise UTF-8 if
\* the whole file decodes as UTF-8 and Windows-1252 if not.
C22_EncodingByPrefix ==
  (pc # "start" /\ returned.kind = "encoding" /\ scan_input.exists) =>
    LET bytes == scan_input.bytes
        starts(sig) == Len(bytes) >= Len(sig)
                        /\ SubSeq(bytes, 1, Len(sig)) = sig
    IN returned.items =
         IF starts(<<239, 187, 191>>) THEN "UTF_8"
         ELSE IF starts(<<254, 255>>) THEN "UTF_16BE"
         ELSE IF starts(<<255, 254>>) THEN "UTF_16LE"
         ELSE IF scan_input.assume_utf8 THEN "UTF_8"
         ELSE IF IsValidUtf8(bytes) THEN "UTF_8"
         ELSE "WINDOWS_1252"

\* C23: when the top-level file is a .msg in which some message storage, the
\* top one or a nested one, lacks the subject or the body stream, or in which
\* some attachment storage holds neither a binary attachment nor an embedded
\* message, the scan aborts by a panic: the caller gets no record list,
\* whatever leaves were found before.
C23_BrokenMsgAborts ==
  LET RECURSIVE broken(_)
      broken(storage) ==
        \/ ~storage.has_subject
        \/ ~storage.has_body
        \/ \E i \in 1..Len(storage.atts) :
             \/ storage.atts[i].shape \notin {"bin", "msg"}
             \/ /\ storage.atts[i].shape = "msg"
                /\ broken(storage.atts[i].storage)
      top == InputNode(scan_input).blob
  IN (pc # "start" /\ top.fmt = "msg" /\ broken(top.storage)) =>
       /\ pc = "panic"
       /\ returned = Err

\* A message whose first attachment storage has neither shape: the scan had
\* already listed the message and its body when it aborted.
C23_Witness ==
  /\ pc = "panic"
  /\ returned = Err
  /\ scan_input.family = "msg"
  /\ Len(scan_input.storage.atts) >= 1
  /\ scan_input.storage.atts[1].shape = "none"
  /\ Len(list_of_files_in_archive) >= 2

\* C24: while the reconciler loop is running no directory has been removed,
\* so the leaf the loop has reached still has, at its path, the file that the
\* decomposition wrote for it.
C24_LeafFilePresent ==
  pc = "loop" =>
    /\ \A i \in 1..Len(list_of_files_in_archive) :
         \A q \in Prefixes(Norm(Parent(list_of_files_in_archive[i].filepath))) :
           q \in dirs
    /\ Norm(list_of_files_in_archive[idx].filepath) \in DOMAIN files

\* C25: for a .msg file with a finite tree of nested messages the work-list
\* loop comes to an end and has dispatched every attachment storage of every
\* nesting level exactly once: the list holds the message, its body, one leaf
\* per binary attachment and one placeholder plus one body per embedded
\* message, and nothing else.
C25_EveryAttachmentOnce ==
  LET RECURSIVE leaves(_, _)
      leaves(storage, i) ==
        IF i > Len(storage.atts) THEN 0
        ELSE (IF storage.atts[i].shape = "msg"
                THEN 2 + leaves(storage.atts[i].storage, 1)
                ELSE 1)
             + leaves(storage, i + 1)
      RECURSIVE embedded(_, _)
      embedded(storage, i) ==
        IF i > Len(storage.atts) THEN 0
        ELSE (IF storage.atts[i].shape = "msg"
                THEN 1 + embedded(storage.atts[i].storage, 1)
                ELSE 0)
             + embedded(storage, i + 1)
  IN (scan_input.family = "msg" /\ pc \in {"loop", "ok"}) =>
       /\ Len(list_of_files_in_archive) = 2 + leaves(scan_input.storage, 1)
       /\ Cardinality({ i \in 2..Len(list_of_files_in_archive) :
                          ~list_of_files_in_archive[i].ok_to_extract_text })
            = embedded(scan_input.storage, 1)

\* A message with an embedded message that itself embeds a message with an
\* attachment: three levels went through the work-list.
C25_Witness ==
  /\ pc = "ok"
  /\ scan_input.family = "msg"
  /\ \E i \in 1..Len(scan_input.storage.atts) :
       LET a == scan_input.storage.atts[i]
       IN /\ a.shape = "msg"
          /\ Len(a.storage.atts) >= 1
          /\ a.storage.atts[1].shape = "msg"
          /\ Len(a.storage.atts[1].storage.atts) >= 1
  /\ Len(list_of_files_in_archive) >= 7

\* C26: text extraction of a raster-image leaf never aborts the scan. However
\* tesseract fails (it cannot be launched, it complains on its error stream,
\* it writes no output file), a scan whose only tool-dependent leaf is an
\* image does not abort, and when it has run to its end, with no prior
\* results to skip by, every record of an image leaf carries a text, empty
\* when the OCR step failed.
C26_OcrNeverAborts ==
  (/\ scan_input.family = "tool"
   /\ scan_input.payload = P_png
   /\ \A t \in Tools \ {"tesseract"} : env[t] = "ok") =>
    /\ pc \notin {"err", "panic"}
    /\ (pc = "ok" /\ pre_scanned_items = <<>>) =>
         \A i \in 1..Len(returned.items) :
           to_lowercase(extension(returned.items[i].filename)) = <<"png">> =>
             returned.items[i].text_contents.some

\* C27: the leaf descriptors of one scan have pairwise distinct paths (two
\* descriptors never stand for one file on disk), so that deleting the file
\* of a processed leaf leaves the file of every later leaf in place.
C27_LeafPathsDistinct ==
  pc \in {"loop", "ok"} =>
    \A i \in 1..Len(list_of_files_in_archive) :
      \A j \in (i + 1)..Len(list_of_files_in_archive) :
        Norm(list_of_files_in_archive[i].filepath)
          # Norm(list_of_files_in_archive[j].filepath)

\* C28: when the call returns Ok and was not cancelled, nothing that the scan
\* created is left under the temp root: the only file and the only
\* directories there are those of other scans.
C28_ScratchRemoved ==
  (pc = "ok" /\ keep_going) =>
    /\ \A q \in DOMAIN files :
         IsPrefix(tempfiles_location, q) => q = PeerFile
    /\ \A q \in dirs :
         IsPrefix(tempfiles_location, q) => q \in Prefixes(Parent(PeerFile))

\* C29: once the flag has been cleared, the loop pushes at most one further
\* record, that of the leaf in progress, and the call returns, whatever kinds
\* of leaves are still in the list.
C29_AtMostOneMoreRecord ==
  cancel_at >= 0 =>
    /\ Len(file_list_items) <= cancel_at + 1
    /\ Len(file_list_items) = cancel_at + 1 => pc # "loop"
    /\ pc = "ok" => Len(returned.items) <= cancel_at + 1

====
